---- MODULE Spec2Model ----
(***************************************************************************)
(* A model of acmebot's certlib: the file-transaction engine               *)
(* (certlib/utils.py), the hook runner (certlib/utils.py), the ACME        *)
(* account bootstrap and the HTTP-01 authorization flow (certlib/acme.py). *)
(*                                                                         *)
(* Files are modelled by a map from paths to contents, directories by the  *)
(* set of the existing ones.  A path is a record [dir, name, k]: dir is    *)
(* the sequence of directory components, name the base name, k the suffix  *)
(* tempfile.mktemp drew for a ".old-" name (0 for every other file).       *)
(* Contents are sequences of integers (the bytes of the file).             *)
(***************************************************************************)
EXTENDS Integers, Sequences, FiniteSets, TLC

\* ---------------------------------------------------------------- bounds
MaxOps == 3        \* operations in one transaction
MaxLen == 1        \* length of a staged content
MaxDomains == 2    \* authorizations of one order
MaxRetry == 2      \* the retry argument of handle_authorizations
MaxAdds == 3       \* add() calls made on one Hooks object
MaxCmds == 2       \* commands configured for one hook name
MaxItems == 2      \* certificate items of one context
MaxTargets == 2    \* verify targets of one certificate spec
MaxAddrs == 2      \* addresses getaddrinfo returns for one name
MaxOcspAttempts == 3  \* the max_ocsp_verify_attempts argument
NumBodies == 2     \* distinct pending bodies the server may answer for a domain

Reverse(s) == [i \in 1..Len(s) |-> s[Len(s) + 1 - i]]

Range(s) == {s[i] : i \in 1..Len(s)}

\* ------------------------------------------------------------ file system
NoDir == << >>
ResourceDir == <<"res">>
ArchiveRoot == <<"arch">>
FileTypes == {"resource"}
TargetNames == {"client.key", "registration.json"}
AllNames == {"client.key", "client_key.json", "registration.json", ".old-"}
AllDirs == {ResourceDir, ArchiveRoot} \cup {ArchiveRoot \o <<t>> : t \in FileTypes}
AllPaths == [dir : AllDirs, name : AllNames, k : 0..MaxOps]

NoPath == [dir |-> NoDir, name |-> "", k |-> 0]
Absent == [present |-> FALSE, data |-> << >>]
NoContent == [present |-> FALSE, data |-> << >>]

File(d) == [present |-> TRUE, data |-> d]
Path(d, n) == [dir |-> d, name |-> n, k |-> 0]

\* os.path.dirname
Dirname(p) == p.dir

Parent(d) == IF d = NoDir THEN NoDir ELSE SubSeq(d, 1, Len(d) - 1)

Exists(f, p) == p \in DOMAIN f /\ f[p].present

\* the content the file at res/<n> holds before the transaction
NameIdx(n) == CASE n = "client.key" -> 1 [] n = "client_key.json" -> 2 [] OTHER -> 3

Orig(n) == <<0, NameIdx(n)>>

\* bool(self._content): None and the empty content are both falsy
IsWrite(c) == c.present /\ Len(c.data) > 0

DirEmpty(f, ds, d) ==
    /\ \A p \in DOMAIN f : p.dir = d => ~f[p].present
    /\ \A e \in ds : e = d \/ Parent(e) # d

\* os.makedirs(d): d and every missing ancestor
Makedirs(ds, d) == ds \cup {SubSeq(d, 1, n) : n \in 1..Len(d)}

\* os.removedirs(d) on an empty d: rmdir d, then every ancestor that is
\* empty in turn (the first failing rmdir ends the pruning silently)
RECURSIVE Removedirs(_, _, _)
Removedirs(f, ds, d) ==
    IF d = NoDir \/ d \notin ds \/ ~DirEmpty(f, ds, d) THEN ds
    ELSE Removedirs(f, ds \ {d}, Parent(d))

\* ------------------------------------------------------------- operations
\* WriteOperation.__init__ / ArchiveAndWriteOperation.__init__ /
\* ArchiveOperation.__init__, and file(): the content staged
NewOp(kind, path, mode, ftype, content) ==
    [kind |-> kind, file_path |-> path, mode |-> mode, file_type |-> ftype,
     content |-> content, tmp_path |-> NoPath, rmdir |-> FALSE, archived |-> FALSE]

Mode600 == 384

NoReg == [uri |-> [scheme |-> 0, host |-> 0, port |-> 0], acct |-> 0]
NoKey == [id |-> 0, encrypted |-> FALSE]
NoSubmit == [sent |-> FALSE, terms_of_service_agreed |-> FALSE]
NoPrompt == [tos |-> FALSE, tty |-> FALSE, asked |-> FALSE, answer |-> << >>]

HookNames == {"set_http_challenge", "clear_http_challenge"}

VARIABLES
    fs,           \* path -> [present, data]: the files on disk
    dirs,         \* the directories that exist
    ops,          \* the operations list handed to commit_file_transactions
    archive_dir,  \* its archive_dir argument (NoDir: None)
    txpc,         \* where commit_file_transactions stands
    cur,          \* index in ops of the operation being applied
    tmp,          \* apply's local tmp_path
    applied,      \* the applied list (indices into ops)
    idx,          \* position of the revert / cleanup loop in applied
    exc,          \* the exception leaving commit_file_transactions
    fs0,          \* history: the files when the call began
    dirs0,        \* history: the directories when the call began
    ops0,         \* history: the operations when the call began
    prior,        \* history: per operation, the file at file_path when it was applied
    revertLog,    \* history: operations revert was called on, in order
    cleanupLog,   \* history: operations cleanup was called on, in order
    revertErr,    \* history: operations whose revert raised
    cleanupErr    \* history: operations whose cleanup raised

txvars == <<fs, dirs, ops, archive_dir, txpc, cur, tmp, applied, idx, exc,
            fs0, dirs0, ops0, prior, revertLog, cleanupLog, revertErr, cleanupErr,
            cleanupErr>>

VARIABLES
    ccpc,               \* where connect_client stands
    passphrase,         \* its passphrase argument: TRUE when one is configured
    registration,       \* its local registration (NoReg: None)
    client_key,         \* its local client_key (NoKey: None)
    client_key_cipher,  \* its local client_key_cipher: TRUE when a cipher is held
    net_key,            \* the account key the ClientNetwork was built with (0: none)
    submitted,          \* the NewRegistration handed to new_account (NoSubmit: none)
    prompt,             \* history: the directory had terms of service, stdin was
                        \* a TTY, the answer given to the prompt (NoPrompt: the
                        \* registration was not reached)
    cc_err              \* the AcmeError or commit error leaving connect_client

ccvars == <<ccpc, passphrase, registration, client_key, client_key_cipher,
            net_key, submitted, prompt, cc_err>>

VARIABLES
    hapc,            \* where handle_authorizations stands
    order,           \* order.authorizations: [status, http01, dir, name] each
    retry,           \* the retry argument
    commands,        \* Hooks._commands: hook name -> sequence of commands, each
                     \* one the kind of its argument templates
    hooks,           \* Hooks._hooks: sequence of [name, calls], in insertion order
    authorizations,  \* the list returned: the domains found valid
    pending,         \* authorization_resources: the authorization kept for each
                     \* pending name, in the order of the dict
    responses,       \* challenge_http_responses: the domains whose file is recorded
    chfiles,         \* the domains whose challenge file is on disk
    k,               \* position of the setup / answer loop in pending
    waiting,         \* the waiting queue of _get_authorizations
    attempts,        \* its attempts counter, keyed by the polled resource
    ha_err,          \* the error leaving handle_authorizations
    err_domain,      \* the domain that error is about (0: none)
    created,         \* history: the domains whose file this call created
    hookrun,         \* history: the invocations hooks.call() executed, in order
    polls,           \* history: per domain, the polls answered with HTTP 200
    steady           \* history: per domain, every poll so far was answered
                     \* 200 and pending

havars == <<hapc, order, retry, commands, hooks, authorizations, pending, responses,
            chfiles, k, waiting, attempts, ha_err, err_domain, created, hookrun, polls, steady>>

VARIABLES
    hkpc,     \* where the caller of a Hooks object stands
    addlog,   \* history: the invocations add() queued, in the order queued
    nadds,    \* history: the number of add() calls made
    lastrun,  \* history: the invocations the last call() executed, in order
    hk_err    \* the exception leaving add() or call()

hkvars == <<hkpc, addlog, nadds, lastrun, hk_err>>

VARIABLES
    vfpc,           \* where verify_certificate_installation stands
    items,          \* the items of the context: [type, has, must] each
    verify_list,    \* context.spec.verify: [hosts, key_types] each
    max_ocsp_verify_attempts,
    vi,             \* index of the item being verified
    vp,             \* position in the probes of that item
    naddrs,         \* len(addr_info) of the host being probed
    va,             \* index of the address being probed
    ocsp_staple,    \* the staple of the last handshake: TRUE when one came
    ocsp_attempts,  \* the local attempts of the staple retry loop
    vf_err,         \* the exception leaving verify_certificate_installation
    shakes,         \* history: handshakes made with the current address
    sleeps,         \* history: sleeps made for the current address
    firstStaple,    \* history: the first handshake with it returned a staple
    shakeErr,       \* history: a handshake with it raised
    vfailed,        \* history: some probe so far ended in a caught exception
    vlog,           \* history: the errors logged for the current address
    probedAddrs,    \* history: the addresses of the current host probed
    resolved,       \* history: [pos, host, name] of every getaddrinfo call
    dialed          \* history: [pos, host, addr, sni] of the fetch_tls_info calls
                    \* made for the current host

vfvars == <<vfpc, items, verify_list, max_ocsp_verify_attempts, vi, vp, naddrs, va,
            ocsp_staple, ocsp_attempts, vf_err, shakes, sleeps, firstStaple, shakeErr,
            vfailed, vlog, probedAddrs, resolved, dialed>>

VARIABLES
    stpc,           \* where fetch_tls_info / _send_starttls stands
    starttls,       \* the starttls argument, as configured
    ststep,         \* the next step of the upgrade of the type
    buffer,         \* what the last sock.recv returned
    sock,           \* the socket: "open" or "closed"
    socktimeout,    \* the timeout set on the socket: 0 for None
    st_err,         \* the exception leaving fetch_tls_info
    wire            \* history: the recv, send and handshake made on the socket

stvars == <<stpc, starttls, ststep, buffer, sock, socktimeout, st_err, wire>>

vars == <<txvars, ccvars, havars, hkvars, vfvars, stvars>>

\* the variables no step of commit_file_transactions touches
nontx == <<ccvars, havars, hkvars, vfvars, stvars>>

ApplySteps == {"makedirs", "rename", "open", "write"}

\* WriteOperation.tmp_path: tempfile.mktemp returns a ".old-" name of the
\* directory that does not exist.  The suffix is random; every free name
\* behaves alike, and the model draws the free name of least suffix.
FreeTmp(f, d) == {p \in AllPaths : p.dir = d /\ p.name = ".old-" /\ p.k >= 1 /\ ~Exists(f, p)}

MktempPaths(f, d) == {p \in FreeTmp(f, d) : \A q \in FreeTmp(f, d) : p.k <= q.k}

\* ArchiveAndWriteOperation.tmp_path with archive_dir set
ArchivePath(ad, op) == [dir |-> ad \o <<op.file_type>>, name |-> op.file_path.name, k |-> op.file_path.k]

Archives(ad, op) == op.kind # "Write" /\ ad # NoDir

\* the paths tmp_path() may return for op
TmpPaths(f, ad, op) ==
    IF Archives(ad, op) THEN {ArchivePath(ad, op)}
    ELSE MktempPaths(f, Dirname(op.file_path))

\* the loop of commit_file_transactions moves to the next operation, or to
\* the cleanup loop after the last one
ApplyDone(o) ==
    /\ ops' = o
    /\ applied' = Append(applied, cur)
    /\ tmp' = NoPath
    /\ IF cur < Len(ops)
         THEN /\ cur' = cur + 1
              /\ txpc' = "makedirs"
              /\ idx' = idx
         ELSE /\ cur' = cur
              /\ txpc' = "cleanup"
              /\ idx' = 1

\* op.apply raised: the except branch of commit_file_transactions starts
ApplyRaised ==
    /\ txpc' = "revert"
    /\ idx' = 1
    /\ exc' = "apply"
    /\ tmp' = NoPath
    /\ UNCHANGED <<cur, applied>>

\* commit_file_transactions, lines 170-174
TxCall ==
    /\ txpc = "call"
    /\ txpc' = IF ops = << >> THEN "returned" ELSE "makedirs"
    /\ cur' = 1
    /\ fs0' = fs
    /\ dirs0' = dirs
    /\ ops0' = ops
    /\ prior' = [i \in 1..Len(ops) |-> Absent]
    /\ UNCHANGED <<fs, dirs, ops, archive_dir, tmp, applied, idx, exc,
                   revertLog, cleanupLog, revertErr, cleanupErr, nontx>>

\* WriteOperation.apply, lines 71-76: tmp_path() and os.makedirs
TxApplyMakedirs ==
    /\ txpc = "makedirs"
    /\ \E t \in TmpPaths(fs, archive_dir, ops[cur]) :
        /\ tmp' = t
        /\ IF Dirname(t) \in dirs
             THEN /\ dirs' = dirs
                  /\ ops' = [ops EXCEPT ![cur].archived = Archives(archive_dir, ops[cur])]
             ELSE /\ dirs' = Makedirs(dirs, Dirname(t))
                  /\ ops' = [ops EXCEPT ![cur].archived = Archives(archive_dir, ops[cur]),
                                        ![cur].rmdir = TRUE]
    /\ txpc' = "rename"
    /\ UNCHANGED <<fs, archive_dir, cur, applied, idx, exc, fs0, dirs0, ops0, prior,
                   revertLog, cleanupLog, revertErr, cleanupErr, nontx>>

\* WriteOperation.apply, lines 78-87: move the existing file out of the way
TxApplyRename ==
    /\ txpc = "rename"
    /\ LET op == ops[cur]
           moved == Exists(fs, op.file_path)
           o1 == IF moved THEN [ops EXCEPT ![cur].tmp_path = tmp] ELSE ops
       IN  /\ fs' = IF moved
                      THEN [fs EXCEPT ![tmp] = fs[op.file_path], ![op.file_path] = Absent]
                      ELSE fs
           /\ dirs' = IF ~moved /\ op.rmdir THEN Removedirs(fs, dirs, Dirname(tmp)) ELSE dirs
           /\ IF IsWrite(op.content)
                THEN /\ ops' = o1
                     /\ txpc' = "open"
                     /\ UNCHANGED <<cur, tmp, applied, idx>>
                ELSE ApplyDone(o1)
           /\ prior' = [prior EXCEPT ![cur] = fs[op.file_path]]
    /\ UNCHANGED <<archive_dir, exc, fs0, dirs0, ops0, revertLog, cleanupLog, revertErr, cleanupErr, nontx>>

\* WriteOperation.apply, lines 89-100: open(file_path, 'w'), fchmod, fchown
TxApplyOpen ==
    /\ txpc = "open"
    /\ IF Dirname(ops[cur].file_path) \in dirs
         THEN /\ fs' = [fs EXCEPT ![ops[cur].file_path] = File(<< >>)]
              /\ txpc' = "write"
              /\ UNCHANGED <<cur, tmp, applied, idx, exc>>
         ELSE /\ fs' = fs
              /\ ApplyRaised
    /\ UNCHANGED <<dirs, ops, archive_dir, fs0, dirs0, ops0, prior, revertLog, cleanupLog, revertErr, cleanupErr, nontx>>

\* WriteOperation.apply, lines 101-103: f.write(self._content)
TxApplyWrite ==
    /\ txpc = "write"
    /\ fs' = [fs EXCEPT ![ops[cur].file_path] = File(ops[cur].content.data)]
    /\ ApplyDone([ops EXCEPT ![cur].content = NoContent])
    /\ UNCHANGED <<dirs, archive_dir, exc, fs0, dirs0, ops0, prior, revertLog, cleanupLog, revertErr, cleanupErr, nontx>>

\* a system call of apply raises an OSError that apply does not catch
\* (os.makedirs, os.rename, open, f.write: no permission, disk full, ...)
TxApplyRaise ==
    /\ txpc \in ApplySteps
    /\ ApplyRaised
    /\ UNCHANGED <<fs, dirs, ops, archive_dir, fs0, dirs0, ops0, prior, revertLog, cleanupLog, revertErr, cleanupErr, nontx>>

\* WriteOperation.revert, lines 106-115, where os.remove or os.rename may
\* raise; outcome "ok": both succeed, "remove": os.remove raises,
\* "rename": os.rename raises after the remove
RevertFs(f, op, outcome) ==
    LET removed == IF outcome = "remove" THEN f ELSE [f EXCEPT ![op.file_path] = Absent]
    IN  IF outcome = "ok" /\ op.tmp_path # NoPath
          THEN [removed EXCEPT ![op.file_path] = f[op.tmp_path], ![op.tmp_path] = Absent]
          ELSE removed

\* the outcomes revert may have: os.rename of a backup that is gone raises
RevertOutcomes(f, op) ==
    {"remove"} \cup (IF op.tmp_path # NoPath THEN {"rename"} ELSE {})
               \cup (IF op.tmp_path # NoPath /\ ~Exists(f, op.tmp_path) THEN {} ELSE {"ok"})

\* the order in which the except branch walks applied (line 184)
RevertOrder(a) == a

\* a revert loop without the try/except of lines 185-188: the first revert
\* that raises ends the rollback and its exception leaves the call
TxRevertAborting ==
    /\ txpc = "revert"
    /\ idx <= Len(applied)
    /\ LET i == RevertOrder(applied)[idx]
       IN  \E outcome \in RevertOutcomes(fs, ops[i]) :
            /\ fs' = RevertFs(fs, ops[i], outcome)
            /\ ops' = IF outcome = "ok" THEN [ops EXCEPT ![i].tmp_path = NoPath] ELSE ops
            /\ revertErr' = IF outcome = "ok" THEN revertErr ELSE revertErr \cup {i}
            /\ revertLog' = Append(revertLog, i)
            /\ txpc' = IF outcome = "ok" THEN txpc ELSE "raised"
            /\ exc' = IF outcome = "ok" THEN exc ELSE "revert"
    /\ idx' = idx + 1
    /\ UNCHANGED <<dirs, archive_dir, cur, tmp, applied, fs0, dirs0, ops0, prior, cleanupLog, cleanupErr, nontx>>

\* commit_file_transactions, lines 184-188: one turn of the revert loop
TxRevert ==
    /\ txpc = "revert"
    /\ idx <= Len(applied)
    /\ LET i == RevertOrder(applied)[idx]
       IN  \E outcome \in RevertOutcomes(fs, ops[i]) :
            /\ fs' = RevertFs(fs, ops[i], outcome)
            /\ ops' = IF outcome = "ok" THEN [ops EXCEPT ![i].tmp_path = NoPath] ELSE ops
            /\ revertErr' = IF outcome = "ok" THEN revertErr ELSE revertErr \cup {i}
            /\ revertLog' = Append(revertLog, i)
    /\ idx' = idx + 1
    /\ UNCHANGED <<dirs, archive_dir, txpc, cur, tmp, applied, exc, fs0, dirs0, ops0, prior, cleanupLog, cleanupErr, nontx>>

\* the cleanup loop in a finally branch instead of the else branch: it
\* runs after the rollback too
TxReraiseThenCleanup ==
    /\ txpc = "revert"
    /\ idx > Len(applied)
    /\ txpc' = "cleanup"
    /\ idx' = 1
    /\ UNCHANGED <<fs, dirs, ops, archive_dir, cur, tmp, applied, exc, fs0, dirs0, ops0, prior,
                   revertLog, cleanupLog, revertErr, cleanupErr, nontx>>

\* commit_file_transactions, line 189: raise e
TxReraise ==
    /\ txpc = "revert"
    /\ idx > Len(applied)
    /\ txpc' = "raised"
    /\ UNCHANGED <<fs, dirs, ops, archive_dir, cur, tmp, applied, idx, exc, fs0, dirs0, ops0, prior,
                   revertLog, cleanupLog, revertErr, cleanupErr, nontx>>

\* a cleanup that every operation skips
CleanupSkippedAlways(op) == TRUE

\* ArchiveAndWriteOperation.cleanup, lines 153-157: skipped for an archived file
CleanupSkipped(op) == op.kind # "Write" /\ op.archived

\* WriteOperation.cleanup, lines 117-130; outcome "raise": os.remove raises
\* an error other than FileNotFoundError
TxCleanup ==
    /\ txpc = "cleanup"
    /\ idx <= Len(applied)
    /\ LET i == applied[idx]
           op == ops[i]
       IN  /\ cleanupLog' = Append(cleanupLog, i)
           /\ IF CleanupSkipped(op) \/ op.tmp_path = NoPath
                THEN UNCHANGED <<fs, dirs, ops, cleanupErr>>
                ELSE \/ /\ fs' = [fs EXCEPT ![op.tmp_path] = Absent]
                        /\ UNCHANGED cleanupErr
                        /\ dirs' = IF op.rmdir
                                     THEN Removedirs(fs', dirs, Dirname(op.tmp_path))
                                     ELSE dirs
                        /\ ops' = [ops EXCEPT ![i].tmp_path = NoPath]
                     \/ /\ cleanupErr' = cleanupErr \cup {i}
                        /\ UNCHANGED <<fs, dirs, ops>>
    /\ idx' = idx + 1
    /\ UNCHANGED <<archive_dir, txpc, cur, tmp, applied, exc, fs0, dirs0, ops0, prior, revertLog, revertErr, nontx>>

\* commit_file_transactions returns after the cleanup loop
TxReturn ==
    /\ txpc = "cleanup"
    /\ idx > Len(applied)
    /\ txpc' = "returned"
    /\ UNCHANGED <<fs, dirs, ops, archive_dir, cur, tmp, applied, idx, exc, fs0, dirs0, ops0, prior,
                   revertLog, cleanupLog, revertErr, cleanupErr, nontx>>

TxNext ==
    \/ TxCall
    \/ TxApplyMakedirs
    \/ TxApplyRename
    \/ TxApplyOpen
    \/ TxApplyWrite
    \/ TxApplyRaise
    \/ TxRevert
    \/ TxReraise
    \/ TxCleanup
    \/ TxReturn

\* ------------------------------------------------ transactions, standalone
\* the content operation i stages: i, len times
NewData(i, len) == [j \in 1..len |-> i]

OpShapes ==
    [kind : {"Write", "ArchiveAndWrite"}, name : TargetNames, len : 0..MaxLen]
    \cup [kind : {"Archive"}, name : TargetNames, len : {-1}]

ShapeOp(s, i) ==
    NewOp(s.kind, Path(ResourceDir, s.name),
          IF s.kind = "Archive" THEN 0 ELSE Mode600,
          IF s.kind = "Write" THEN "" ELSE "resource",
          IF s.len < 0 THEN NoContent ELSE File(NewData(i, s.len)))

\* the directories before the call: the archive tree is there in part or not
InitDirs(ad) ==
    IF ad = NoDir THEN {{}, {ResourceDir}}
    ELSE {r \cup a : r \in {{}, {ResourceDir}},
                     a \in {{}, {ArchiveRoot}, {ArchiveRoot, ArchiveRoot \o <<"resource">>}}}

TxIdle ==
    /\ cur = 1
    /\ tmp = NoPath
    /\ applied = << >>
    /\ idx = 1
    /\ exc = "none"
    /\ revertLog = << >>
    /\ cleanupLog = << >>
    /\ revertErr = {}
    /\ cleanupErr = {}
    /\ prior = << >>

\* connect_client is not running
CCIdle ==
    /\ ccpc = "idle"
    /\ passphrase = FALSE
    /\ registration = NoReg
    /\ client_key = NoKey
    /\ client_key_cipher = FALSE
    /\ net_key = 0
    /\ submitted = NoSubmit
    /\ prompt = NoPrompt
    /\ cc_err = "none"

\* handle_authorizations is not running
HAIdle ==
    /\ hapc = "idle"
    /\ order = << >>
    /\ retry = 0
    /\ commands = [n \in HookNames |-> << >>]
    /\ hooks = << >>
    /\ authorizations = << >>
    /\ pending = << >>
    /\ responses = << >>
    /\ chfiles = {}
    /\ k = 1
    /\ waiting = << >>
    /\ attempts = << >>
    /\ ha_err = "none"
    /\ err_domain = 0
    /\ created = {}
    /\ hookrun = << >>
    /\ polls = << >>
    /\ steady = << >>

\* verify_certificate_installation is not running
VFIdle ==
    /\ vfpc = "idle"
    /\ items = << >>
    /\ verify_list = << >>
    /\ max_ocsp_verify_attempts = 1
    /\ vi = 1
    /\ vp = 1
    /\ naddrs = 0
    /\ va = 1
    /\ ocsp_staple = FALSE
    /\ ocsp_attempts = 0
    /\ vf_err = "none"
    /\ shakes = 0
    /\ sleeps = 0
    /\ firstStaple = FALSE
    /\ shakeErr = FALSE
    /\ vfailed = FALSE
    /\ vlog = {}
    /\ probedAddrs = {}
    /\ resolved = {}
    /\ dialed = {}

\* no socket is being upgraded
STIdle ==
    /\ stpc = "idle"
    /\ starttls = ""
    /\ ststep = 1
    /\ buffer = << >>
    /\ sock = "closed"
    /\ socktimeout = 0
    /\ st_err = "none"
    /\ wire = << >>

\* no Hooks object is driven on its own
HKIdle ==
    /\ hkpc = "idle"
    /\ addlog = << >>
    /\ nadds = 0
    /\ lastrun = << >>
    /\ hk_err = "none"

TxInit ==
    /\ archive_dir \in {NoDir, ArchiveRoot}
    /\ dirs \in InitDirs(archive_dir)
    /\ \E present \in SUBSET TargetNames :
        /\ present # {} => ResourceDir \in dirs
        /\ fs = [p \in AllPaths |->
                   IF p.dir = ResourceDir /\ p.k = 0 /\ p.name \in present
                     THEN File(Orig(p.name)) ELSE Absent]
    /\ \E n \in 0..MaxOps : \E shapes \in [1..n -> OpShapes] :
        ops = [i \in 1..n |-> ShapeOp(shapes[i], i)]
    /\ txpc = "call"
    /\ fs0 = fs
    /\ dirs0 = dirs
    /\ ops0 = ops
    /\ TxIdle
    /\ CCIdle
    /\ HAIdle
    /\ HKIdle
    /\ VFIdle
    /\ STIdle

SpecTx == TxInit /\ [][TxNext]_vars

\* ------------------------------------------------------- connect_client
\* A URL is [scheme, host, port]; urllib.parse.urlparse(url)[0] is the
\* scheme and [1] the netloc, which holds the host and the port.
DirectoryUrl == [scheme |-> 1, host |-> 1, port |-> 1]

StoredUrls ==
    {DirectoryUrl,
     [scheme |-> 2, host |-> 1, port |-> 1],
     [scheme |-> 1, host |-> 2, port |-> 1],
     [scheme |-> 1, host |-> 1, port |-> 2]}

Netloc(u) == <<u.host, u.port>>

\* the test of line 48, comparing scheme only
OriginChangedSchemeOnly(acme_url, reg_url) == acme_url.scheme # reg_url.scheme

\* connect_client, line 48
OriginChanged(acme_url, reg_url) ==
    acme_url.scheme # reg_url.scheme \/ Netloc(acme_url) # Netloc(reg_url)

StoredKeyId == 1
LegacyKeyId == 2
FreshKeyId == 3
StoredAcct == 1
NewAcct == 2

RegistrationPath == Path(ResourceDir, "registration.json")
ClientKeyPath == Path(ResourceDir, "client.key")
ClientOldKeyPath == Path(ResourceDir, "client_key.json")

\* PrivateKey.encode(passphrase): the PEM file of a key, encrypted or not
KeyFile(id, enc) == <<1, id, IF enc THEN 1 ELSE 0>>

\* the legacy JWK file of a key
JwkFile(id) == <<3, id>>

\* RegistrationResource.json_dumps
RegFile(r) == <<2, r.uri.scheme, r.uri.host, r.uri.port, r.acct>>

\* RegistrationResource.json_loads
RegOf(d) == [uri |-> [scheme |-> d[2], host |-> d[3], port |-> d[4]], acct |-> d[5]]

\* PrivateKey.load: None when the file does not exist
LoadKey(f, p) ==
    IF Exists(f, p) THEN [id |-> f[p].data[2], encrypted |-> f[p].data[3] = 1] ELSE NoKey

\* PrivateKey.from_key(JWKRSA.fields_from_json(...), False)
LoadJwk(f, p) == [id |-> f[p].data[2], encrypted |-> FALSE]

\* connect_client, lines 41-50: the stored registration, dropped when the
\* origin of its uri is not the one of directory_url
LoadRegistration(f) ==
    IF ~Exists(f, RegistrationPath) THEN NoReg
    ELSE IF OriginChanged(DirectoryUrl, RegOf(f[RegistrationPath].data).uri) THEN NoReg
    ELSE RegOf(f[RegistrationPath].data)

\* connect_client, lines 41-95: everything before the network is touched
CCLoad ==
    /\ ccpc = "load"
    /\ LET reg0 == LoadRegistration(fs)
           loaded == IF reg0 # NoReg THEN LoadKey(fs, ClientKeyPath) ELSE NoKey
           legacy == reg0 # NoReg /\ loaded = NoKey /\ Exists(fs, ClientOldKeyPath)
           key1 == IF legacy THEN LoadJwk(fs, ClientOldKeyPath) ELSE loaded
           reg1 == IF reg0 # NoReg /\ key1 = NoKey THEN NoReg ELSE reg0
           ops1 == IF legacy
                     THEN <<NewOp("Archive", ClientOldKeyPath, 0, "resource", NoContent)>>
                     ELSE << >>
           key2 == IF key1 = NoKey THEN [id |-> FreshKeyId, encrypted |-> FALSE] ELSE key1
           kind == IF key1 = NoKey THEN "ArchiveAndWrite"
                   ELSE IF key1.encrypted /\ ~passphrase THEN "ArchiveAndWrite"
                   ELSE IF ~key1.encrypted /\ passphrase THEN "Write"
                   ELSE "none"
           cipher == IF key1 = NoKey THEN passphrase
                     ELSE IF key1.encrypted /\ ~passphrase THEN FALSE
                     ELSE IF ~key1.encrypted /\ passphrase THEN TRUE
                     ELSE loaded.encrypted
           op == NewOp(kind, ClientKeyPath, Mode600,
                       IF kind = "Write" THEN "" ELSE "resource",
                       File(KeyFile(key2.id, cipher)))
       IN  /\ registration' = reg1
           /\ client_key' = key2
           /\ client_key_cipher' = cipher
           /\ ops' = IF kind = "none" THEN ops1 ELSE Append(ops1, op)
    /\ ccpc' = "connect"
    /\ UNCHANGED <<fs, dirs, archive_dir, txpc, cur, tmp, applied, idx, exc, fs0, dirs0, ops0,
                   prior, revertLog, cleanupLog, revertErr, cleanupErr,
                   passphrase, net_key, submitted, prompt, cc_err, havars, hkvars, vfvars, stvars>>

\* connect_client saving the staged content of its last operation before the
\* directory is fetched
CCConnectKeySavedFirst ==
    /\ ccpc = "connect"
    /\ net_key' = client_key.id
    /\ fs' = IF ops # << >> /\ ops[Len(ops)].content.present
               THEN [fs EXCEPT ![ops[Len(ops)].file_path] = ops[Len(ops)].content]
               ELSE fs
    /\ \/ /\ ccpc' = IF registration = NoReg THEN "register" ELSE "commit"
          /\ cc_err' = cc_err
       \/ /\ ccpc' = "raised"
          /\ cc_err' = "connect"
    /\ UNCHANGED <<dirs, ops, archive_dir, txpc, cur, tmp, applied, idx, exc, fs0, dirs0, ops0,
                   prior, revertLog, cleanupLog, revertErr, cleanupErr,
                   passphrase, registration, client_key, client_key_cipher,
                   submitted, prompt, havars, hkvars, vfvars, stvars>>

\* connect_client, lines 97-103: ClientNetwork and the directory; the
\* directory fetch fails or not
CCConnect ==
    /\ ccpc = "connect"
    /\ \/ /\ net_key' = client_key.id
          /\ ccpc' = IF registration = NoReg THEN "register" ELSE "commit"
          /\ cc_err' = cc_err
       \/ /\ net_key' = client_key.id
          /\ ccpc' = "raised"
          /\ cc_err' = "connect"
    /\ UNCHANGED <<txvars, passphrase, registration, client_key, client_key_cipher,
                   submitted, prompt, havars, hkvars, vfvars, stvars>>

\* str.lower on the characters an answer is made of
Lower(c) == IF c = "Y" THEN "y" ELSE IF c = "N" THEN "n" ELSE c

\* what input('Accept? (Y/n) ') may return
Answers == {<< >>, <<"y">>, <<"Y", "e", "s">>, <<"n">>, <<"N", "o">>}

\* every answer that does not begin with y is a refusal
RejectedUnlessYes(answer) == answer = << >> \/ Lower(answer[1]) # "y"

\* connect_client, line 116
Rejected(answer) == answer # << >> /\ Lower(answer[1]) # "y"

\* connect_client, lines 105-129: the account is registered; the directory
\* advertises terms of service or not, stdin is a TTY or not, new_account
\* fails or not
CCRegister ==
    /\ ccpc = "register"
    /\ \E tos \in BOOLEAN, tty \in BOOLEAN, answer \in Answers, ok \in BOOLEAN :
        /\ prompt' = [tos |-> tos, tty |-> tty, asked |-> tos /\ tty,
                       answer |-> IF tos /\ tty THEN answer ELSE << >>]
        /\ IF tos /\ tty /\ Rejected(answer)
          THEN /\ ccpc' = "raised"
               /\ cc_err' = "register"
               /\ UNCHANGED <<registration, submitted, ops>>
          ELSE /\ submitted' = [sent |-> TRUE, terms_of_service_agreed |-> tos]
               /\ IF ok
                    THEN /\ registration' = [uri |-> DirectoryUrl, acct |-> NewAcct]
                         /\ ops' = Append(ops, [NewOp("ArchiveAndWrite", RegistrationPath,
                                                      Mode600, "resource", NoContent)
                                                EXCEPT !.content = File(RegFile(registration'))])
                         /\ ccpc' = "commit"
                         /\ cc_err' = cc_err
                    ELSE /\ ccpc' = "raised"
                         /\ cc_err' = "register"
                         /\ UNCHANGED <<registration, ops>>
    /\ UNCHANGED <<fs, dirs, archive_dir, txpc, cur, tmp, applied, idx, exc, fs0, dirs0, ops0,
                   prior, revertLog, cleanupLog, revertErr, cleanupErr,
                   passphrase, client_key, client_key_cipher, net_key, havars, hkvars, vfvars, stvars>>

\* connect_client, lines 131-132: commit_file_transactions(ops, archive_dir)
CCCommit ==
    /\ ccpc = "commit"
    /\ IF ops # << >>
         THEN /\ ccpc' = "committing"
              /\ txpc' = "call"
         ELSE /\ ccpc' = "returned"
              /\ txpc' = txpc
    /\ UNCHANGED <<fs, dirs, ops, archive_dir, cur, tmp, applied, idx, exc, fs0, dirs0, ops0,
                   prior, revertLog, cleanupLog, revertErr, cleanupErr,
                   passphrase, registration, client_key, client_key_cipher,
                   net_key, submitted, prompt, cc_err, havars, hkvars, vfvars, stvars>>

\* connect_client, line 134: return acme_client; or the commit raised
CCReturn ==
    /\ ccpc = "committing"
    /\ txpc \in {"returned", "raised"}
    /\ ccpc' = IF txpc = "returned" THEN "returned" ELSE "raised"
    /\ cc_err' = IF txpc = "returned" THEN cc_err ELSE "commit"
    /\ UNCHANGED <<txvars, passphrase, registration, client_key, client_key_cipher,
                   net_key, submitted, prompt, havars, hkvars, vfvars, stvars>>

CCNext ==
    \/ CCLoad
    \/ CCConnect
    \/ CCRegister
    \/ CCCommit
    \/ CCReturn
    \/ TxNext

\* the resource directory before connect_client: a registration or none, a
\* client key (clear or encrypted) or none, a legacy key or none
CCInit ==
    /\ passphrase \in BOOLEAN
    /\ archive_dir \in {NoDir, ArchiveRoot}
    /\ dirs \in InitDirs(archive_dir)
    /\ \E regs \in {{}} \cup {{u} : u \in StoredUrls},
          keys \in {{}, {TRUE}, {FALSE}},
          old \in BOOLEAN :
        /\ (regs # {} \/ keys # {} \/ old) => ResourceDir \in dirs
        /\ fs = [p \in AllPaths |->
                   IF p = RegistrationPath /\ regs # {}
                     THEN File(RegFile([uri |-> CHOOSE u \in regs : TRUE, acct |-> StoredAcct]))
                   ELSE IF p = ClientKeyPath /\ keys # {}
                     THEN File(KeyFile(StoredKeyId, CHOOSE e \in keys : TRUE))
                   ELSE IF p = ClientOldKeyPath /\ old
                     THEN File(JwkFile(LegacyKeyId))
                   ELSE Absent]
    /\ ops = << >>
    /\ ops0 = << >>
    /\ fs0 = fs
    /\ dirs0 = dirs
    /\ txpc = "idle"
    /\ TxIdle
    /\ ccpc = "load"
    /\ registration = NoReg
    /\ client_key = NoKey
    /\ client_key_cipher = FALSE
    /\ net_key = 0
    /\ submitted = NoSubmit
    /\ prompt = NoPrompt
    /\ cc_err = "none"
    /\ HAIdle
    /\ HKIdle
    /\ VFIdle
    /\ STIdle

SpecCC == CCInit /\ [][CCNext]_vars

\* ----------------------------------------------------------------- Hooks
\* A command is one of these kinds.  "ok", "exit" and "nostart" format with
\* the kwargs of add() and differ in what running them does: exit status 0,
\* a non-zero exit status (CalledProcessError), an executable that cannot
\* be started (OSError).  "nokey" names a key the kwargs lack (str.format
\* raises KeyError), "badindex" holds a positional field such as {0}
\* (str.format raises IndexError).
CommandKinds == {"ok", "exit", "nostart", "nokey", "badindex"}

Formats(c) == c \in {"ok", "exit", "nostart"}

\* Hooks.add, lines 216-225: the commands formatted and appended before the
\* first one whose str.format raises
RECURSIVE Formatted(_)
Formatted(cmds) ==
    IF cmds = << >> \/ ~Formats(Head(cmds)) THEN 0 ELSE 1 + Formatted(Tail(cmds))

\* Hooks.add, lines 205-227: nothing when no command is configured; else
\* the name gets its list, and one invocation per formatted command is
\* appended to it
HooksAdd(h, cmds, name, d) ==
    IF cmds[name] = << >> THEN h
    ELSE LET h1 == IF \E i \in 1..Len(h) : h[i].name = name
                     THEN h ELSE Append(h, [name |-> name, calls |-> << >>])
             i == CHOOSE j \in 1..Len(h1) : h1[j].name = name
         IN  [h1 EXCEPT ![i].calls =
                 @ \o [c \in 1..Formatted(cmds[name]) |-> [name |-> name, cmd |-> c, domain |-> d]]]

\* Hooks.add, lines 216-227: the except clause catches KeyError alone; the
\* IndexError of a positional field leaves add()
AddRaises(cmds, name) ==
    /\ Formatted(cmds[name]) < Len(cmds[name])
    /\ cmds[name][Formatted(cmds[name]) + 1] = "badindex"

\* Hooks.call, lines 230-239: the invocations in the order they are executed
RECURSIVE HooksCalls(_)
HooksCalls(h) == IF h = << >> THEN << >> ELSE Head(h).calls \o HooksCalls(Tail(h))

\* ------------------------------------------------------ Hooks, standalone
\* Hooks.call, lines 232-239: both except clauses log and go on to the
\* next invocation, whatever the command did
CallStops(c) == FALSE

\* Hooks.call, lines 230-239: the invocations executed, in order
RECURSIVE Executed(_, _)
Executed(q, cmds) ==
    IF q = << >> THEN << >>
    ELSE IF CallStops(cmds[Head(q).name][Head(q).cmd]) THEN <<Head(q)>>
    ELSE <<Head(q)>> \o Executed(Tail(q), cmds)

\* Hooks.add(name, ...) with the kwargs of the nadds+1-th call
HkAdd ==
    /\ hkpc = "ready"
    /\ nadds < MaxAdds
    /\ \E name \in HookNames :
        /\ hooks' = HooksAdd(hooks, commands, name, nadds + 1)
        /\ addlog' = addlog \o [c \in 1..Formatted(commands[name]) |->
                                   [name |-> name, cmd |-> c, domain |-> nadds + 1]]
        /\ hkpc' = IF AddRaises(commands, name) THEN "raised" ELSE hkpc
        /\ hk_err' = IF AddRaises(commands, name) THEN "add" ELSE hk_err
    /\ nadds' = nadds + 1
    /\ UNCHANGED <<lastrun, hookrun, commands, txvars, ccvars, vfvars, stvars>>
    /\ UNCHANGED <<hapc, order, retry, authorizations, pending, responses, chfiles, k,
                   waiting, attempts, ha_err, err_domain, created, polls, steady>>

\* Hooks.call(), lines 229-240
HkCall ==
    /\ hkpc = "ready"
    /\ LET q == HooksCalls(hooks)
           run == Executed(q, commands)
       IN  /\ hookrun' = hookrun \o run
           /\ lastrun' = run
           /\ IF Len(run) < Len(q)
                THEN /\ hkpc' = "raised"
                     /\ hk_err' = "call"
                     /\ hooks' = hooks
                ELSE /\ hooks' = << >>
                     /\ UNCHANGED <<hkpc, hk_err>>
    /\ UNCHANGED <<addlog, nadds, commands, txvars, ccvars, vfvars, stvars>>
    /\ UNCHANGED <<hapc, order, retry, authorizations, pending, responses, chfiles, k,
                   waiting, attempts, ha_err, err_domain, created, polls, steady>>

HkNext ==
    \/ HkAdd
    \/ HkCall

RECURSIVE SeqsUpTo(_, _)
SeqsUpTo(S, n) ==
    IF n = 0 THEN {<< >>}
    ELSE SeqsUpTo(S, n - 1) \cup {Append(q, x) : q \in SeqsUpTo(S, n - 1), x \in S}

\* Hooks.__init__, lines 200-202: an empty queue over the configured commands
HkInit ==
    /\ commands \in [HookNames -> SeqsUpTo(CommandKinds, MaxCmds)]
    /\ hooks = << >>
    /\ hookrun = << >>
    /\ hkpc = "ready"
    /\ addlog = << >>
    /\ nadds = 0
    /\ lastrun = << >>
    /\ hk_err = "none"
    /\ hapc = "idle"
    /\ order = << >>
    /\ retry = 0
    /\ authorizations = << >>
    /\ pending = << >>
    /\ responses = << >>
    /\ chfiles = {}
    /\ k = 1
    /\ waiting = << >>
    /\ attempts = << >>
    /\ ha_err = "none"
    /\ err_domain = 0
    /\ created = {}
    /\ polls = << >>
    /\ steady = << >>
    /\ CCIdle
    /\ archive_dir = NoDir
    /\ dirs = {}
    /\ fs = [p \in AllPaths |-> Absent]
    /\ ops = << >>
    /\ ops0 = << >>
    /\ fs0 = fs
    /\ dirs0 = dirs
    /\ txpc = "idle"
    /\ TxIdle
    /\ VFIdle
    /\ STIdle

SpecHooks == HkInit /\ [][HkNext]_vars

\* ------------------------------------------------- handle_authorizations
AttemptKeys == (1..MaxDomains) \X (1..NumBodies)

\* _get_authorizations, line 245: the counter is keyed by the resource the
\* poll returned, which is equal to an earlier one when domain and body are
AttemptKey(d, b) == <<d, b>>

\* the test of line 254 with >= for >
ExceedsRetryOffByOne(n, r) == n >= r

\* _get_authorizations, line 254
ExceedsRetry(n, r) == n > r

\* handle_authorizations, lines 152-159: what the collect loop does with an
\* authorization of the order
Triage(status) ==
    IF status = "valid" THEN "accept"
    ELSE IF status = "pending" THEN "challenge"
    ELSE "fail"

\* _get_authorizations, lines 246-261: what the poll loop does with the
\* status a poll answered with HTTP 200
PollVerdict(status) ==
    IF status = "valid" THEN "collect"
    ELSE IF status = "invalid" THEN "invalid"
    ELSE IF status = "pending" THEN "retry"
    ELSE "unexpected"

\* the statuses an authorization may have (RFC 8555, 7.1.6)
AuthzStatuses == {"pending", "valid", "invalid", "deactivated"}

\* handle_authorizations raises e about domain d before any file is removed
HAFail(e, d) ==
    /\ hapc' = "raised"
    /\ ha_err' = e
    /\ err_domain' = d

\* the except branch of lines 194-197: the recorded challenge files are
\* removed and the error leaves handle_authorizations
HAFailCleaning(e, d) ==
    /\ HAFail(e, d)
    /\ chfiles' = chfiles \ Range(responses)

\* handle_authorizations, line 157: authorization_resources[domain_name] is
\* set for the authorizations ds in turn; dict holds, in the order of the
\* first insertion of each name, the last authorization set for it
RECURSIVE DictOf(_, _)
DictOf(ds, dict) ==
    IF ds = << >> THEN dict
    ELSE LET d == Head(ds)
             at == {j \in 1..Len(dict) : order[dict[j]].name = order[d].name}
         IN  DictOf(Tail(ds),
                    IF at = {} THEN Append(dict, d)
                    ELSE [dict EXCEPT ![CHOOSE j \in at : TRUE] = d])

\* handle_authorizations, lines 146-163: the authorizations are sorted into
\* the valid and the pending ones; any other status raises
HACollect ==
    /\ hapc = "collect"
    /\ LET bad == {i \in 1..Len(order) : Triage(order[i].status) = "fail"}
           sel(t) == SelectSeq([i \in 1..Len(order) |-> i],
                               LAMBDA i : Triage(order[i].status) = t)
       IN  IF bad # {}
             THEN /\ HAFail("status", CHOOSE i \in bad : \A j \in bad : i <= j)
                  /\ UNCHANGED <<authorizations, pending>>
             ELSE /\ authorizations' = [i \in 1..Len(sel("accept")) |->
                                          [domain |-> sel("accept")[i],
                                           status |-> order[sel("accept")[i]].status]]
                  /\ pending' = DictOf(sel("challenge"), << >>)
                  /\ hapc' = IF sel("challenge") = << >> THEN "returned" ELSE "setup"
                  /\ UNCHANGED <<ha_err, err_domain>>
    /\ UNCHANGED <<order, retry, commands, hooks, responses, chfiles, k, waiting,
                   attempts, created, hookrun, polls, steady, txvars, ccvars, hkvars, vfvars, stvars>>

\* handle_authorizations, lines 167-189: one turn of the setup loop.  The
\* file is written or creating it raises, before or after open() made it.
HASetup ==
    /\ hapc = "setup"
    /\ LET d == pending[k]
       IN  IF ~order[d].dir
             THEN /\ HAFail("nodir", d)
                  /\ UNCHANGED <<responses, chfiles, created, hooks, k>>
           ELSE IF ~order[d].http01
             THEN /\ HAFail("nochallenge", d)
                  /\ UNCHANGED <<responses, chfiles, created, hooks, k>>
           ELSE \/ /\ chfiles' = chfiles \cup {d}
                   /\ created' = created \cup {d}
                   /\ responses' = Append(responses, d)
                   /\ hooks' = HooksAdd(hooks, commands, "set_http_challenge", d)
                   /\ k' = IF k < Len(pending) THEN k + 1 ELSE 1
                   /\ hapc' = IF k < Len(pending) THEN "setup" ELSE "call"
                   /\ UNCHANGED <<ha_err, err_domain>>
                \/ \E made \in BOOLEAN :
                   /\ HAFail("createfile", d)
                   /\ chfiles' = (chfiles \cup (IF made THEN {d} ELSE {})) \ Range(responses)
                   /\ created' = created \cup (IF made THEN {d} ELSE {})
                   /\ UNCHANGED <<responses, hooks, k>>
    /\ UNCHANGED <<order, retry, commands, authorizations, pending, waiting,
                   attempts, hookrun, polls, steady, txvars, ccvars, hkvars, vfvars, stvars>>

\* handle_authorizations, line 191: hooks.call()
HACall ==
    /\ hapc = "call"
    /\ hookrun' = hookrun \o HooksCalls(hooks)
    /\ hooks' = << >>
    /\ hapc' = "answer"
    /\ UNCHANGED <<order, retry, commands, authorizations, pending, responses, chfiles,
                   k, waiting, attempts, ha_err, err_domain, created, polls, steady,
                   txvars, ccvars, hkvars, vfvars, stvars>>

\* _get_authorizations, lines 215-227: one challenge is answered, or
\* answering raises; after the last one the waiting queue is built
HAAnswer ==
    /\ hapc = "answer"
    /\ \/ /\ k' = IF k < Len(pending) THEN k + 1 ELSE 1
          /\ hapc' = IF k < Len(pending) THEN "answer" ELSE "poll"
          /\ waiting' = IF k < Len(pending) THEN waiting ELSE pending
          /\ UNCHANGED <<chfiles, ha_err, err_domain>>
       \/ /\ HAFailCleaning("answer", pending[k])
          /\ UNCHANGED <<k, waiting>>
    /\ UNCHANGED <<order, retry, commands, hooks, authorizations, pending, responses,
                   attempts, created, hookrun, polls, steady, txvars, ccvars, hkvars, vfvars, stvars>>

\* _get_authorizations, lines 228-261: one turn of the poll loop.  The poll
\* raises, or answers with a status other than 200, or with 200 and a
\* status; a pending answer carries one of the bodies the server may send.
HAPoll ==
    /\ hapc = "poll"
    /\ waiting # << >>
    /\ LET d == Head(waiting)
           rest == Tail(waiting)
       IN  \/ /\ HAFailCleaning("poll", d)
              /\ UNCHANGED <<waiting, attempts, authorizations, polls, steady>>
           \/ /\ waiting' = Append(rest, d)
              /\ steady' = [steady EXCEPT ![d] = FALSE]
              /\ UNCHANGED <<hapc, ha_err, err_domain, chfiles, attempts, authorizations,
                             polls>>
           \/ \E st \in AuthzStatuses \ {"pending"} :
              /\ polls' = [polls EXCEPT ![d] = @ + 1]
              /\ steady' = [steady EXCEPT ![d] = FALSE]
              /\ IF PollVerdict(st) = "collect"
                   THEN /\ waiting' = rest
                        /\ authorizations' = Append(authorizations,
                                                     [domain |-> d, status |-> st])
                        /\ UNCHANGED <<hapc, ha_err, err_domain, chfiles, attempts>>
                   ELSE /\ HAFailCleaning(PollVerdict(st), d)
                        /\ UNCHANGED <<waiting, attempts, authorizations>>
           \/ \E b \in 1..NumBodies :
              /\ attempts' = [attempts EXCEPT ![AttemptKey(d, b)] = @ + 1]
              /\ polls' = [polls EXCEPT ![d] = @ + 1]
              /\ IF ExceedsRetry(attempts'[AttemptKey(d, b)], retry)
                   THEN /\ HAFailCleaning("timeout", d)
                        /\ UNCHANGED waiting
                   ELSE /\ waiting' = Append(rest, d)
                        /\ UNCHANGED <<hapc, ha_err, err_domain, chfiles>>
              /\ UNCHANGED <<authorizations, steady>>
    /\ UNCHANGED <<order, retry, commands, hooks, pending, responses, k, created,
                   hookrun, txvars, ccvars, hkvars, vfvars, stvars>>

\* handle_authorizations, lines 199-206: the challenge files are removed, the
\* clear_http_challenge hooks queued and called, the authorizations returned
RECURSIVE AddClearHooks(_, _, _)
AddClearHooks(h, cmds, ds) ==
    IF ds = << >> THEN h
    ELSE AddClearHooks(HooksAdd(h, cmds, "clear_http_challenge", Head(ds)), cmds, Tail(ds))

HACleanup ==
    /\ hapc = "poll"
    /\ waiting = << >>
    /\ chfiles' = chfiles \ Range(responses)
    /\ hookrun' = hookrun \o HooksCalls(AddClearHooks(hooks, commands, responses))
    /\ hooks' = << >>
    /\ hapc' = "returned"
    /\ UNCHANGED <<order, retry, commands, authorizations, pending, responses, k, waiting,
                   attempts, ha_err, err_domain, created, polls, steady,
                   txvars, ccvars, hkvars, vfvars, stvars>>

HANext ==
    \/ HACollect
    \/ HASetup
    \/ HACall
    \/ HAAnswer
    \/ HAPoll
    \/ HACleanup

\* an order of up to MaxDomains authorizations.  Each has the status, the
\* http-01 challenge or none, and the http_challenge_directory configured
\* for its identifier or none; the identifier value (name) is shared by the
\* authorization of a wildcard name and the one of its base name (RFC 8555,
\* 7.1.4).
AuthzShapes ==
    [status : {"pending"}, http01 : BOOLEAN, dir : BOOLEAN]
    \cup [status : {"valid", "deactivated"}, http01 : {TRUE}, dir : {TRUE}]

HAInit ==
    /\ \E n \in 1..MaxDomains :
          \E shapes \in [1..n -> AuthzShapes], names \in [1..n -> 1..n] :
              /\ \A i \in 1..n : names[i] <= i
              /\ \A i, j \in 1..n : names[i] = names[j] => shapes[i].dir = shapes[j].dir
              /\ order = [i \in 1..n |->
                            [status |-> shapes[i].status, http01 |-> shapes[i].http01,
                             dir |-> shapes[i].dir, name |-> names[i]]]
    /\ retry \in 1..MaxRetry
    /\ commands \in [HookNames -> {<< >>, <<"ok">>}]
    /\ hooks = << >>
    /\ authorizations = << >>
    /\ pending = << >>
    /\ responses = << >>
    /\ chfiles = {}
    /\ k = 1
    /\ waiting = << >>
    /\ attempts = [key \in AttemptKeys |-> 0]
    /\ ha_err = "none"
    /\ err_domain = 0
    /\ created = {}
    /\ hookrun = << >>
    /\ polls = [d \in 1..MaxDomains |-> 0]
    /\ steady = [d \in 1..MaxDomains |-> TRUE]
    /\ hapc = "collect"
    /\ CCIdle
    /\ archive_dir = NoDir
    /\ dirs = {}
    /\ fs = [p \in AllPaths |-> Absent]
    /\ ops = << >>
    /\ ops0 = << >>
    /\ fs0 = fs
    /\ dirs0 = dirs
    /\ txpc = "idle"
    /\ TxIdle
    /\ HKIdle
    /\ VFIdle
    /\ STIdle

SpecHA == HAInit /\ [][HANext]_vars

\* handle_authorizations runs in one thread that is never suspended for
\* ever: whenever it has a next step, it takes one
SpecHALive == HAInit /\ [][HANext]_vars /\ WF_vars(HANext)

\* ------------------------------------------- verify_certificate_installation
\* A host name is the sequence of its characters; "wildcard-test." stands
\* for the fourteen characters of that prefix.
HostNames == {<<"*", ".", "x">>, <<"w", ".", "x">>, <<"*", "x">>}

AltNames == <<<<"w", ".", "x">>>>

\* the name handed to getaddrinfo, left as configured
DialNameLiteral(h) == h

\* _verify_certificate_installation, lines 98-99
DialName(h) ==
    IF Len(h) >= 2 /\ h[1] = "*" /\ h[2] = "."
      THEN <<"wildcard-test.">> \o SubSeq(h, 3, Len(h))
      ELSE h

\* the name of the configuration sent as the server name
ServerNameConfigured(configured, host_name) == configured

\* _verify_certificate_installation, line 110, and fetch_tls_info, line 79:
\* the server name of the handshake is the host_name argument, which is the
\* local host_name of the caller after the rewrite of line 99; configured is
\* the name the caller was given
ServerName(configured, host_name) == host_name

\* the except clause of line 147 taken for one that lets AcmeError pass
ExceptCatchesOSError(e) == e # "starttls"

\* _verify_certificate_installation, line 147: except Exception
ExceptCatches(e) == TRUE

\* what fetch_tls_info may raise: sock.connect, _send_starttls, do_handshake
ShakeErrors == {"connect", "starttls", "handshake"}

\* the retry test of line 113 with <= for <
RetryAgainOneMore(staple, n, max) == ~staple /\ n <= max

\* _verify_certificate_installation, line 113
RetryAgain(staple, n, max) == ~staple /\ n < max

\* verify_certificate_installation, lines 163-172: the item is skipped
Usable(item) == item.has = "both"

\* verify_certificate_installation, lines 174-178: hosts of target v
HostsOf(v) == IF verify_list[v].hosts # << >> THEN verify_list[v].hosts ELSE AltNames

\* verify_certificate_installation, lines 174-178: the <<target, host index>>
\* pairs probed for item i, in the order of the two loops, from target v on
RECURSIVE ProbesFrom(_, _)
ProbesFrom(i, v) ==
    IF v > Len(verify_list) THEN << >>
    ELSE IF verify_list[v].key_types # {} /\ items[i].type \notin verify_list[v].key_types
      THEN ProbesFrom(i, v + 1)
    ELSE [h \in 1..Len(HostsOf(v)) |-> <<v, h>>] \o ProbesFrom(i, v + 1)

Probes(i) == ProbesFrom(i, 1)

CurPos == <<vi, Probes(vi)[vp][1], Probes(vi)[vp][2]>>

CurHost == HostsOf(Probes(vi)[vp][1])[Probes(vi)[vp][2]]

\* the scratch of one address is reset
FreshAddr ==
    /\ ocsp_staple' = FALSE
    /\ ocsp_attempts' = 0
    /\ shakes' = 0
    /\ sleeps' = 0
    /\ firstStaple' = FALSE
    /\ shakeErr' = FALSE
    /\ vlog' = {}

\* _verify_certificate_installation returned: the host loop of
\* verify_certificate_installation goes on with the next probe of the item,
\* or the item loop with the next item
NextHost ==
    /\ IF vp < Len(Probes(vi))
         THEN /\ vp' = vp + 1
              /\ vfpc' = "resolve"
              /\ vi' = vi
         ELSE /\ vp' = 1
              /\ vfpc' = "item"
              /\ vi' = vi + 1
    /\ naddrs' = 0
    /\ va' = 1
    /\ probedAddrs' = {}
    /\ dialed' = {}

\* verify_certificate_installation, lines 151-161
VfStart ==
    /\ vfpc = "start"
    /\ vfpc' = IF verify_list = << >> THEN "returned" ELSE "item"
    /\ UNCHANGED <<items, verify_list, max_ocsp_verify_attempts, vi, vp, naddrs, va,
                   ocsp_staple, ocsp_attempts, vf_err, shakes, sleeps, firstStaple, shakeErr,
                   vfailed, vlog, probedAddrs, resolved, dialed, txvars, ccvars, havars, hkvars, stvars>>

\* verify_certificate_installation, lines 163-174: the next item
VfItem ==
    /\ vfpc = "item"
    /\ IF vi > Len(items)
         THEN /\ vfpc' = "returned"
              /\ UNCHANGED vi
       ELSE IF ~Usable(items[vi]) \/ Probes(vi) = << >>
         THEN /\ vi' = vi + 1
              /\ UNCHANGED vfpc
         ELSE /\ vfpc' = "resolve"
              /\ UNCHANGED vi
    /\ UNCHANGED <<items, verify_list, max_ocsp_verify_attempts, vp, naddrs, va,
                   ocsp_staple, ocsp_attempts, vf_err, shakes, sleeps, firstStaple, shakeErr,
                   vfailed, vlog, probedAddrs, resolved, dialed, txvars, ccvars, havars, hkvars, stvars>>

\* _verify_certificate_installation, lines 94-104: getaddrinfo raises, or
\* returns one address or more
VfResolve ==
    /\ vfpc = "resolve"
    /\ resolved' = resolved \cup {[pos |-> CurPos, host |-> CurHost, name |-> DialName(CurHost)]}
    /\ \/ /\ NextHost
          /\ vfailed' = TRUE
          /\ UNCHANGED <<ocsp_staple, ocsp_attempts, shakes, sleeps, firstStaple, shakeErr, vlog>>
       \/ \E n \in 1..MaxAddrs :
          /\ naddrs' = n
          /\ va' = 1
          /\ vfpc' = "shake"
          /\ probedAddrs' = {}
          /\ FreshAddr
          /\ UNCHANGED <<vi, vp, dialed, vfailed>>
    /\ UNCHANGED <<items, verify_list, max_ocsp_verify_attempts, vf_err,
                   txvars, ccvars, havars, hkvars, stvars>>

\* _verify_certificate_installation, lines 109-117: one fetch_tls_info call,
\* the first one of the address or one of the retry loop (after its sleep).
\* It raises, or returns the peer chain with a staple or without.
VfHandshake ==
    /\ vfpc = "shake"
    /\ shakes' = shakes + 1
    /\ sleeps' = IF shakes = 0 THEN sleeps ELSE sleeps + 1
    /\ probedAddrs' = probedAddrs \cup {va}
    /\ dialed' = dialed \cup {[pos |-> CurPos, host |-> CurHost,
                               addr |-> [name |-> DialName(CurHost), n |-> va],
                               sni |-> ServerName(CurHost, DialName(CurHost))]}
    /\ \/ \E e \in ShakeErrors :
          /\ UNCHANGED <<ocsp_staple, ocsp_attempts, firstStaple>>
          /\ shakeErr' = TRUE
          /\ IF ExceptCatches(e)
               THEN /\ vlog' = vlog \cup {"connect"}
                    /\ vfpc' = "addrdone"
                    /\ vfailed' = TRUE
                    /\ UNCHANGED vf_err
               ELSE /\ vfpc' = "raised"
                    /\ vf_err' = e
                    /\ UNCHANGED <<vlog, vfailed>>
       \/ \E staple \in BOOLEAN :
          LET n == IF shakes = 0 THEN 1 ELSE ocsp_attempts + 1
          IN  /\ ocsp_staple' = staple
              /\ ocsp_attempts' = IF items[vi].must THEN n ELSE ocsp_attempts
              /\ firstStaple' = IF shakes = 0 THEN staple ELSE firstStaple
              /\ vfpc' = IF items[vi].must /\ RetryAgain(staple, n, max_ocsp_verify_attempts)
                           THEN "shake" ELSE "compare"
              /\ UNCHANGED <<vlog, vf_err, shakeErr, vfailed>>
    /\ UNCHANGED <<items, verify_list, max_ocsp_verify_attempts, vi, vp, naddrs, va,
                   resolved, txvars, ccvars, havars, hkvars, stvars>>

\* _verify_certificate_installation, lines 119-146: the peer certificate and
\* chain are compared (they match, or a mismatch is logged) and the staple
\* is looked at; ocsp_response_status answers good or not, or raises
VfCompare ==
    /\ vfpc = "compare"
    /\ \E match \in BOOLEAN, status \in {"good", "revoked", "raise"} :
        /\ vfailed' = (vfailed \/ (ocsp_staple /\ status = "raise"))
        /\ vlog' = vlog
            \cup (IF match THEN {} ELSE {"mismatch"})
            \cup (IF ocsp_staple /\ status = "revoked" THEN {"ocsp"} ELSE {})
            \cup (IF ocsp_staple /\ status = "raise" THEN {"connect"} ELSE {})
            \cup (IF ~ocsp_staple /\ items[vi].must THEN {"muststaple"} ELSE {})
    /\ vfpc' = "addrdone"
    /\ UNCHANGED <<items, verify_list, max_ocsp_verify_attempts, vi, vp, naddrs, va,
                   ocsp_staple, ocsp_attempts, vf_err, shakes, sleeps, firstStaple,
                   shakeErr, probedAddrs, resolved, dialed, txvars, ccvars, havars, hkvars, stvars>>

\* _verify_certificate_installation, line 106: the next address, or the
\* function returns after the last one
VfNextAddr ==
    /\ vfpc = "addrdone"
    /\ IF va < naddrs
         THEN /\ va' = va + 1
              /\ vfpc' = "shake"
              /\ UNCHANGED <<vi, vp, naddrs, probedAddrs, dialed>>
         ELSE NextHost
    /\ FreshAddr
    /\ UNCHANGED <<items, verify_list, max_ocsp_verify_attempts, vf_err, resolved, vfailed,
                   txvars, ccvars, havars, hkvars, stvars>>

VfNext ==
    \/ VfStart
    \/ VfItem
    \/ VfResolve
    \/ VfHandshake
    \/ VfCompare
    \/ VfNextAddr

\* the items of a context: a key type, the certificate and the chain found
\* or not, must-staple or not
ItemShapes ==
    {[type |-> "rsa", has |-> "both", must |-> TRUE],
     [type |-> "ecdsa", has |-> "both", must |-> FALSE],
     [type |-> "rsa", has |-> "nocert", must |-> FALSE],
     [type |-> "ecdsa", has |-> "nochain", must |-> TRUE]}

\* the verify targets of a spec
TargetShapes ==
    {[hosts |-> << >>, key_types |-> {}],
     [hosts |-> <<<<"*", ".", "x">>, <<"*", "x">>>>, key_types |-> {}],
     [hosts |-> <<<<"*", ".", "x">>>>, key_types |-> {"rsa"}]}

VfInit ==
    /\ \E n \in 1..MaxItems : items \in [1..n -> ItemShapes]
    /\ \E n \in 0..MaxTargets : verify_list \in [1..n -> TargetShapes]
    /\ max_ocsp_verify_attempts \in 1..MaxOcspAttempts
    /\ vfpc = "start"
    /\ vi = 1
    /\ vp = 1
    /\ naddrs = 0
    /\ va = 1
    /\ ocsp_staple = FALSE
    /\ ocsp_attempts = 0
    /\ vf_err = "none"
    /\ shakes = 0
    /\ sleeps = 0
    /\ firstStaple = FALSE
    /\ shakeErr = FALSE
    /\ vfailed = FALSE
    /\ vlog = {}
    /\ probedAddrs = {}
    /\ resolved = {}
    /\ dialed = {}
    /\ HAIdle
    /\ HKIdle
    /\ CCIdle
    /\ STIdle
    /\ archive_dir = NoDir
    /\ dirs = {}
    /\ fs = [p \in AllPaths |-> Absent]
    /\ ops = << >>
    /\ ops0 = << >>
    /\ fs0 = fs
    /\ dirs0 = dirs
    /\ txpc = "idle"
    /\ TxIdle

SpecVerify == VfInit /\ [][VfNext]_vars

\* ------------------------------------------ fetch_tls_info, _send_starttls
\* What a server sends is a sequence of tokens; a needle is found in it as
\* `needle in buffer` finds a byte string in another.
Contains(buf, needle) ==
    \E i \in 1..(Len(buf) - Len(needle) + 1) : SubSeq(buf, i, i + Len(needle) - 1) = needle

\* what a sock.recv(4096) may return
Buffers ==
    {<<"220", "ready">>,
     <<"250-", "STARTTLS">>,
     <<"quote", "STARTTLS", "quote">>,
     << >>}

\* the values of verify.starttls
StartTlsTypes == {"smtp", "pop3", "imap", "ftp", "xmpp", "sieve", "SMTP", "Sieve", "ldap"}

\* _send_starttls, line 19: ty.lower()
LowerType(ty) ==
    IF ty = "SMTP" THEN "smtp" ELSE IF ty = "Sieve" THEN "sieve" ELSE ty

Recv == [op |-> "recv"]

Send(text, eol) == [op |-> "send", text |-> text, eol |-> eol]

Require(needle) == [op |-> "require", needle |-> needle]

\* _send_starttls, lines 20-57: the steps of the branch of each type
Script(ty) ==
    CASE ty = "smtp" ->
           <<Recv, Send("ehlo acmebot.org", "CRLF"), Recv, Require(<<"STARTTLS">>),
             Send("starttls", "CRLF"), Recv>>
      [] ty = "pop3" -> <<Recv, Send("STLS", "CRLF"), Recv>>
      [] ty = "imap" -> <<Recv, Send("a001 STARTTLS", "CRLF"), Recv>>
      [] ty = "ftp" -> <<Recv, Send("AUTH TLS", "CRLF"), Recv>>
      [] ty = "xmpp" ->
           <<Send("<stream:stream to=host>", "LF"), Recv, Send("<starttls/>", ""), Recv>>
      [] ty = "sieve" ->
           <<Recv, Require(<<"quote", "STARTTLS", "quote">>), Send("StartTls", "CRLF"), Recv>>
      [] OTHER -> << >>

\* _send_starttls, lines 20-58: the type has a branch of its own
Supported(ty) == ty \in {"smtp", "pop3", "imap", "ftp", "xmpp", "sieve"}

\* _send_starttls, lines 26 and 53: the shutdown call made when the
\* capability is missing.  sock.shutdown(socket.SHUT_RDWR) returns;
\* sock.shutdown() with no argument raises TypeError.
ShutdownRaises(ty) == ty = "sieve"

\* fetch_tls_info, lines 66-70: the socket is connected; with a starttls type
\* _send_starttls is entered: the timeout is set to 30 seconds and a type
\* with no branch closes the socket and raises (lines 58-61)
StEnter ==
    /\ stpc = "connected"
    /\ IF starttls = ""
         THEN /\ stpc' = "tls"
              /\ UNCHANGED <<sock, socktimeout, st_err>>
       ELSE IF Supported(LowerType(starttls))
         THEN /\ stpc' = "upgrade"
              /\ socktimeout' = 30
              /\ UNCHANGED <<sock, st_err>>
         ELSE /\ stpc' = "raised"
              /\ socktimeout' = 30
              /\ sock' = "closed"
              /\ st_err' = "unsupported"
    /\ UNCHANGED <<starttls, ststep, buffer, wire, txvars, ccvars, havars, hkvars, vfvars>>

\* _send_starttls: a sock.recv of the branch returns what the server sent
\* within the timeout, or raises
StRecv ==
    /\ stpc = "upgrade"
    /\ ststep <= Len(Script(LowerType(starttls)))
    /\ Script(LowerType(starttls))[ststep].op = "recv"
    /\ \/ \E b \in Buffers :
             /\ buffer' = b
             /\ wire' = Append(wire, [op |-> "recv", data |-> b])
             /\ ststep' = ststep + 1
             /\ UNCHANGED <<stpc, st_err>>
       \/ /\ stpc' = "raised"
          /\ st_err' = "timeout"
          /\ UNCHANGED <<buffer, wire, ststep>>
    /\ UNCHANGED <<starttls, sock, socktimeout, txvars, ccvars, havars, hkvars, vfvars>>

\* _send_starttls: a sock.send of the branch, which may raise
StSend ==
    /\ stpc = "upgrade"
    /\ ststep <= Len(Script(LowerType(starttls)))
    /\ Script(LowerType(starttls))[ststep].op = "send"
    /\ \/ /\ wire' = Append(wire, Script(LowerType(starttls))[ststep])
          /\ ststep' = ststep + 1
          /\ UNCHANGED <<stpc, st_err>>
       \/ /\ stpc' = "raised"
          /\ st_err' = "oserror"
          /\ UNCHANGED <<wire, ststep>>
    /\ UNCHANGED <<starttls, buffer, sock, socktimeout, txvars, ccvars, havars, hkvars, vfvars>>

\* _send_starttls, lines 25-28 and 52-55: the capability is looked for in
\* the buffer received last; when it is missing the socket is shut down and
\* closed and AcmeError raised, unless the shutdown call itself raises
StRequire ==
    /\ stpc = "upgrade"
    /\ ststep <= Len(Script(LowerType(starttls)))
    /\ Script(LowerType(starttls))[ststep].op = "require"
    /\ IF Contains(buffer, Script(LowerType(starttls))[ststep].needle)
         THEN /\ ststep' = ststep + 1
              /\ UNCHANGED <<stpc, sock, st_err>>
       ELSE IF ShutdownRaises(LowerType(starttls))
         THEN /\ stpc' = "raised"
              /\ st_err' = "typeerror"
              /\ UNCHANGED <<sock, ststep>>
         ELSE /\ stpc' = "raised"
              /\ st_err' = "notsupported"
              /\ sock' = "closed"
              /\ UNCHANGED ststep
    /\ UNCHANGED <<starttls, buffer, socktimeout, wire, txvars, ccvars, havars, hkvars, vfvars>>

\* _send_starttls, line 62: the branch is over, the timeout is cleared
StReturn ==
    /\ stpc = "upgrade"
    /\ ststep > Len(Script(LowerType(starttls)))
    /\ socktimeout' = 0
    /\ stpc' = "tls"
    /\ UNCHANGED <<starttls, ststep, buffer, sock, st_err, wire,
                   txvars, ccvars, havars, hkvars, vfvars>>

\* fetch_tls_info, lines 76-89: the TLS handshake on the socket, which
\* raises or is followed by the shutdown and close of the connection
StHandshake ==
    /\ stpc = "tls"
    /\ wire' = Append(wire, [op |-> "handshake"])
    /\ \/ /\ stpc' = "returned"
          /\ sock' = "closed"
          /\ UNCHANGED st_err
       \/ /\ stpc' = "raised"
          /\ st_err' = "handshake"
          /\ UNCHANGED sock
    /\ UNCHANGED <<starttls, ststep, buffer, socktimeout, txvars, ccvars, havars, hkvars, vfvars>>

StNext ==
    \/ StEnter
    \/ StRecv
    \/ StSend
    \/ StRequire
    \/ StReturn
    \/ StHandshake

\* fetch_tls_info, lines 66-67: a socket connected to the address, for a
\* target with a starttls type or without
StInit ==
    /\ stpc = "connected"
    /\ starttls \in StartTlsTypes \cup {""}
    /\ ststep = 1
    /\ buffer = << >>
    /\ sock = "open"
    /\ socktimeout = 0
    /\ st_err = "none"
    /\ wire = << >>
    /\ TxIdle
    /\ archive_dir = NoDir
    /\ dirs = {}
    /\ fs = [p \in AllPaths |-> Absent]
    /\ ops = << >>
    /\ ops0 = << >>
    /\ fs0 = fs
    /\ dirs0 = dirs
    /\ txpc = "idle"
    /\ CCIdle
    /\ HAIdle
    /\ HKIdle
    /\ VFIdle

SpecStartTls == StInit /\ [][StNext]_vars

\* ------------------------------------------------- claims on transactions
OpIdx == 1..Len(ops)

\* the operations of the call target pairwise distinct files
DistinctTargets == \A i, j \in OpIdx : i # j => ops[i].file_path # ops[j].file_path

\* C1: once commit_file_transactions has finished raising, every target
\* path of every operation (the failing one included) holds exactly the
\* content it had before the call, and a path that did not exist does not
\* exist.  Stated for the rollbacks in which no revert raised.
C1_RollbackRestores ==
    (txpc = "raised" /\ revertErr = {}) =>
        \A i \in OpIdx : fs[ops[i].file_path] = fs0[ops[i].file_path]

\* C2: after commit_file_transactions returns normally, the target file of
\* every Write or ArchiveAndWrite operation exists and holds the content
\* staged through op.file(), whatever its length.  Stated for the
\* transactions whose operations target pairwise distinct files.
C2_CommittedContent ==
    (txpc = "returned" /\ DistinctTargets) =>
        \A i \in OpIdx :
            (ops0[i].kind # "Archive" /\ ops0[i].content.present) =>
                fs[ops0[i].file_path] = File(ops0[i].content.data)

\* C3: after a successful commit with archive_dir set, for every
\* ArchiveAndWrite operation whose file_path held a file when it was
\* applied, that prior content is at archive_dir/<file_type>/<basename>.
C3_PriorFileArchived ==
    (txpc = "returned" /\ archive_dir # NoDir) =>
        \A i \in OpIdx :
            (ops[i].kind = "ArchiveAndWrite" /\ prior[i].present) =>
                fs[ArchivePath(archive_dir, ops[i])] = prior[i]

\* C4: at every state of the apply phase, for every operation, the content
\* that was at its file_path before the call is still at file_path or at a
\* backup path recorded by an operation on that file_path.
C4_BackupIntact ==
    txpc \in ApplySteps =>
        \A i \in OpIdx :
            fs0[ops[i].file_path].present =>
                \/ fs[ops[i].file_path] = fs0[ops[i].file_path]
                \/ \E j \in OpIdx :
                    /\ ops[j].file_path = ops[i].file_path
                    /\ ops[j].tmp_path # NoPath
                    /\ fs[ops[j].tmp_path] = fs0[ops[i].file_path]

\* C5: operations are applied in submission order, and after a failed apply
\* the applied operations are reverted in the reverse of that order.
C5_ApplyAndRevertOrder ==
    /\ applied = [i \in 1..Len(applied) |-> i]
    /\ txpc = "raised" => revertLog = Reverse(applied)

\* C6: cleanup and revert exclude each other: once revert was called on an
\* operation, cleanup is called on none, and cleanup is called only after
\* every operation of the list was applied without error.
C6_CleanupRevertExclusive ==
    /\ revertLog # << >> => cleanupLog = << >>
    /\ cleanupLog # << >> =>
        /\ applied = [i \in OpIdx |-> i]
        /\ exc = "none"
        /\ revertLog = << >>

C6_Witness ==
    /\ txpc = "raised"
    /\ Len(revertLog) = 2
    /\ cleanupLog = << >>

\* C7: a revert that raises does not stop the rollback: when
\* commit_file_transactions raises, revert was attempted once on every
\* applied operation, and the exception raised is the one of apply.
C7_RollbackSurvivesRevertError ==
    txpc = "raised" =>
        /\ Len(revertLog) = Len(applied)
        /\ Range(revertLog) = Range(applied)
        /\ exc = "apply"

C7_Witness ==
    /\ txpc = "raised"
    /\ Len(applied) = 2
    /\ revertLog[1] \in revertErr
    /\ revertLog[2] \notin revertErr

\* ----------------------------------------------- claims on connect_client
StoredRegFile == fs0[RegistrationPath]

StoredReg == RegOf(StoredRegFile.data)

SchemeOrHostDiffers ==
    /\ StoredRegFile.present
    /\ \/ StoredReg.uri.scheme # DirectoryUrl.scheme
       \/ StoredReg.uri.host # DirectoryUrl.host

SameSchemeAndNetloc ==
    /\ StoredRegFile.present
    /\ StoredReg.uri.scheme = DirectoryUrl.scheme
    /\ StoredReg.uri.host = DirectoryUrl.host
    /\ StoredReg.uri.port = DirectoryUrl.port

\* the stored registration was discarded: a fresh key is used and was staged
\* for client.key with mode 0o600, a new account was registered and its
\* registration is in registration.json
RegistrationDiscarded ==
    /\ net_key = FreshKeyId
    /\ \E i \in 1..Len(ops0) :
        /\ ops0[i].file_path = ClientKeyPath
        /\ ops0[i].mode = Mode600
        /\ ops0[i].content = File(KeyFile(FreshKeyId, passphrase))
    /\ submitted.sent
    /\ registration = [uri |-> DirectoryUrl, acct |-> NewAcct]
    /\ fs[RegistrationPath] = File(RegFile([uri |-> DirectoryUrl, acct |-> NewAcct]))

\* the stored registration was kept and no account was created
RegistrationKept ==
    /\ ~submitted.sent
    /\ registration = StoredReg
    /\ fs[RegistrationPath] = StoredRegFile

RECURSIVE PendingPolls(_, _)
PendingPolls(d, b) == IF b = 0 THEN 0 ELSE attempts[AttemptKey(d, b)] + PendingPolls(d, b - 1)

\* every poll of d was answered 200 and pending with one and the same resource
SameAnswer(d) == steady[d] /\ \E b \in 1..NumBodies : attempts[AttemptKey(d, b)] = polls[d]

TimedOut == hapc = "raised" /\ ha_err = "timeout"

\* C9 as stated: when the server keeps answering pending with HTTP 200, the
\* timeout is raised after exactly retry polls of that authorization
C9_TimeoutAfterRetryPolls ==
    (TimedOut /\ steady[err_domain]) => polls[err_domain] = retry

\* C9: an authorization the server keeps answering with the same pending
\* resource (HTTP 200) is polled exactly retry + 1 times before the timeout
\* is raised; the timeout is raised by the poll that brings one resource's
\* count to retry + 1; the counts of a domain are made of its own pending
\* polls only, and no authorization still waiting has a count above retry
C9_TimeoutAfterRetryPlusOnePolls ==
    /\ TimedOut =>
          /\ \E b \in 1..NumBodies : attempts[AttemptKey(err_domain, b)] = retry + 1
          /\ polls[err_domain] >= retry + 1
          /\ SameAnswer(err_domain) => polls[err_domain] = retry + 1
    /\ hapc = "poll" =>
          \A d \in Range(waiting) :
              /\ \A b \in 1..NumBodies : attempts[AttemptKey(d, b)] <= retry
              /\ PendingPolls(d, NumBodies) = polls[d]

\* two domains are pending; one times out on the same answer while the
\* other one was polled as well
C9_Witness ==
    /\ TimedOut
    /\ SameAnswer(err_domain)
    /\ polls[err_domain] = retry + 1
    /\ \E d \in Range(pending) : d # err_domain /\ polls[d] > 0

\* C10: when handle_authorizations has returned or raised, no challenge file
\* it created during the call is left on disk
C10_NoChallengeFileLeft ==
    hapc \in {"returned", "raised"} => chfiles \cap created = {}

\* the invocations of hook name n for domain d that hooks.call() executed
HookRuns(n, d) == {i \in 1..Len(hookrun) : hookrun[i].name = n /\ hookrun[i].domain = d}

\* C11: when handle_authorizations has returned or raised, for every domain
\* whose challenge file was written and whose set_http_challenge hook was
\* executed, a clear_http_challenge hook (where one is configured) was
\* executed after it.
C11_ClearHookAfterSetHook ==
    (hapc \in {"returned", "raised"} /\ commands["clear_http_challenge"] # << >>) =>
        \A d \in Range(responses) :
            \A i \in HookRuns("set_http_challenge", d) :
                \E j \in HookRuns("clear_http_challenge", d) : j > i

\* ------------------------------------------------------- claims on Hooks
\* C12: call() executes the queued invocations in the order in which add()
\* queued them across all hook names: whenever the queue is empty, what
\* was executed so far is what was queued so far, in that order.
C12_CallInInsertionOrder ==
    (hkpc = "ready" /\ hooks = << >>) => hookrun = addlog

\* C13: hooks never abort the caller: neither add() nor call() raises.
C13_HooksNeverRaise == hkpc # "raised"

\* ---------------------------------------------------- claims on the verifier
IsWildcard(h) == Len(h) >= 2 /\ h[1] = "*" /\ h[2] = "."

\* wildcard-test.X for *.X
WildcardTest(h) == <<"wildcard-test.">> \o SubSeq(h, 3, Len(h))

\* C14: for every verify host *.X the verifier resolves and connects to
\* wildcard-test.X, never to the literal *.X; every other host is resolved
\* and connected to unchanged.
C14_WildcardHostDialed ==
    /\ \A r \in resolved :
        /\ IsWildcard(r.host) => r.name = WildcardTest(r.host) /\ r.name # r.host
        /\ ~IsWildcard(r.host) => r.name = r.host
    /\ \A c \in dialed :
        /\ IsWildcard(c.host) => c.addr.name = WildcardTest(c.host) /\ c.addr.name # c.host
        /\ ~IsWildcard(c.host) => c.addr.name = c.host

C14_Witness ==
    /\ \E c \in dialed : IsWildcard(c.host) /\ c.addr.name[1] = "wildcard-test."
    /\ \E r \in resolved : r.host = <<"*", "x">> /\ r.name = r.host

\* C15: per address, exactly one handshake is made when the certificate has
\* no must-staple or the first handshake returns a staple; otherwise the
\* handshake is repeated, each repeat after one sleep, no handshake follows
\* one that returned a staple, and at most max_ocsp_verify_attempts
\* handshakes are made; when all of them returned and none brought a
\* staple, max_ocsp_verify_attempts were made and the must-staple error is
\* logged.
C15_StapleRetryBound ==
    /\ (vfpc = "shake" /\ shakes > 0) =>
          /\ items[vi].must
          /\ ~ocsp_staple
          /\ shakes < max_ocsp_verify_attempts
    /\ vfpc = "addrdone" =>
          /\ sleeps = shakes - 1
          /\ shakes <= (IF items[vi].must THEN max_ocsp_verify_attempts ELSE 1)
          /\ (~items[vi].must \/ firstStaple) => shakes = 1
          /\ ocsp_staple => "muststaple" \notin vlog
          /\ (items[vi].must /\ ~shakeErr /\ ~ocsp_staple) =>
                /\ shakes = max_ocsp_verify_attempts
                /\ "muststaple" \in vlog

C15_Witness ==
    /\ vfpc = "addrdone"
    /\ items[vi].must
    /\ max_ocsp_verify_attempts = 3
    /\ shakes = 3
    /\ sleeps = 2
    /\ ~ocsp_staple
    /\ "muststaple" \in vlog

\* the probes verify_certificate_installation is to make: every host of
\* every target that admits the key type of an item holding a certificate
\* and a chain
ExpectedProbes ==
    UNION {UNION {{<<i, v, h>> : h \in 1..Len(HostsOf(v))} :
                  v \in {w \in 1..Len(verify_list) :
                            verify_list[w].key_types = {}
                            \/ items[i].type \in verify_list[w].key_types}} :
           i \in {j \in 1..Len(items) : items[j].has = "both"}}

\* C16: no failure of a probe leaves verify_certificate_installation: a
\* handshake that raised is logged, every address of the host is probed all
\* the same, and when the call returns every host of every target was
\* resolved for every item, whatever failed before.
C16_ValidationNonFatal ==
    /\ vfpc # "raised"
    /\ (vfpc = "addrdone" /\ shakeErr) => "connect" \in vlog
    /\ (vfpc = "addrdone" /\ va = naddrs) => probedAddrs = 1..naddrs
    /\ (vfpc = "returned" /\ verify_list # << >>) =>
          {r.pos : r \in resolved} = ExpectedProbes

\* a probe without any error after an earlier one failed
C16_Witness ==
    /\ vfpc = "addrdone"
    /\ vfailed
    /\ ~shakeErr
    /\ vlog = {}
    /\ Cardinality(resolved) >= 2

\* ------------------------------------- claims on transactions, continued
\* C17: apply ensures the parent directory of the destination: when apply
\* comes to open file_path to write the staged content, the directory of
\* file_path exists.
C17_ParentDirEnsured ==
    txpc = "open" => Dirname(ops[cur].file_path) \in dirs

\* C18: after a successful commit, cleanup was called once on every
\* operation, in order, whatever cleanup failed, and the commit did not
\* raise; every operation whose cleanup did not fail and whose backup was
\* a sibling temp file holds no backup any more, and every ".old-" file left
\* is the backup of an operation whose cleanup failed.
C18_BackupsCleaned ==
    (txpc = "returned" /\ ops # << >>) =>
        /\ cleanupLog = [i \in OpIdx |-> i]
        /\ exc = "none"
        /\ \A i \in OpIdx \ cleanupErr : ~ops[i].archived => ops[i].tmp_path = NoPath
        /\ \A p \in AllPaths :
              (p.name = ".old-" /\ fs[p].present) =>
                  \E i \in cleanupErr : ops[i].tmp_path = p

\* the cleanup of the first operation failed and the second one's backup, a
\* sibling temp file, was removed all the same
C18_Witness ==
    /\ txpc = "returned"
    /\ archive_dir = NoDir
    /\ Len(cleanupLog) >= 2
    /\ cleanupLog[1] \in cleanupErr
    /\ cleanupLog[2] \notin cleanupErr
    /\ prior[cleanupLog[2]].present
    /\ ops[cleanupLog[2]].tmp_path = NoPath

\* ----------------------------- claims on handle_authorizations, continued
ValidAtFirst == {d \in 1..Len(order) : order[d].status = "valid"}

PendingAtFirst == {d \in 1..Len(order) : order[d].status = "pending"}

OtherAtFirst == (1..Len(order)) \ (ValidAtFirst \cup PendingAtFirst)

Returned == {authorizations[i].domain : i \in 1..Len(authorizations)}

\* C19: an authorization valid at first is accepted and gets no challenge
\* file, no answer and no poll; once the setup is over every pending one
\* has its challenge file (violated when two pending authorizations carry
\* the same identifier value: line 157 keeps one of them only); with an authorization of any other status the
\* call fails and no file is ever written; with a pending one that has no
\* http_challenge_directory the call never gets past the setup and never
\* returns; and when all are valid nothing is answered or polled and no
\* hook is run.
C19_InitialTriage ==
    /\ \A d \in ValidAtFirst :
          /\ d \notin created
          /\ d \notin Range(pending)
          /\ d \notin Range(waiting)
          /\ polls[d] = 0
          /\ (hapc # "collect" /\ OtherAtFirst = {}) => d \in Returned
    /\ hapc \in {"call", "answer", "poll"} => PendingAtFirst \subseteq (chfiles \cap created)
    /\ OtherAtFirst # {} =>
          /\ created = {}
          /\ hapc \in {"collect", "raised"}
          /\ hapc = "raised" => ha_err = "status"
    /\ (\E d \in PendingAtFirst : ~order[d].dir) =>
          hapc \in {"collect", "setup", "raised"}
    /\ PendingAtFirst = {} =>
          /\ hapc \in {"collect", "returned", "raised"}
          /\ hookrun = << >>
          /\ created = {}
          /\ \A d \in 1..Len(order) : polls[d] = 0

\* C20: handle_authorizations returns only with every authorization valid:
\* the list returned holds one valid authorization per authorization of
\* the order, those valid at first and those a poll found valid (violated
\* when a pending authorization was dropped by the dict of line 157); a polled
\* invalid status ends the call at once, whoever is still waiting; and an
\* authorization found valid is not polled again.
C20_ReturnsOnlyAllValid ==
    /\ \A i \in 1..Len(authorizations) : authorizations[i].status = "valid"
    /\ \A i, j \in 1..Len(authorizations) :
          authorizations[i].domain = authorizations[j].domain => i = j
    /\ Returned \cap Range(waiting) = {}
    /\ \A i, j \in 1..Len(waiting) : waiting[i] = waiting[j] => i = j
    /\ hapc = "returned" =>
          /\ Returned = 1..Len(order)
          /\ \A d \in 1..Len(order) : d \in ValidAtFirst \/ polls[d] > 0
    /\ ha_err = "invalid" => hapc = "raised"

\* ---------------------------------------------------------------- C21
\* C21 as stated: the server name of every handshake is the host name as
\* configured, for a wildcard host too.
C21_SniIsConfiguredHost == \A r \in dialed : r.sni = r.host

\* C21, amended: the server name of every handshake is the name that was
\* resolved and dialed: the configured name of a host that is no wildcard,
\* and wildcard-test.X for a wildcard host *.X.
C21_SniIsDialedName ==
    \A r \in dialed :
        /\ r.sni = r.addr.name
        /\ ~IsWildcard(r.host) => r.sni = r.host
        /\ IsWildcard(r.host) => r.sni = WildcardTest(r.host)

\* a handshake was made for a wildcard host and returned
C21_Witness ==
    /\ \E r \in dialed : IsWildcard(r.host)
    /\ vfpc = "compare"

\* ---------------------------------------------------------------- C22
\* the plaintext steps of each type, in the order of the table
UpgradeTable(ty) ==
    CASE ty = "smtp" -> <<"recv", "ehlo acmebot.org", "recv", "starttls", "recv">>
      [] ty = "pop3" -> <<"recv", "STLS", "recv">>
      [] ty = "imap" -> <<"recv", "a001 STARTTLS", "recv">>
      [] ty = "ftp" -> <<"recv", "AUTH TLS", "recv">>
      [] ty = "xmpp" -> <<"<stream:stream to=host>", "recv", "<starttls/>", "recv">>
      [] ty = "sieve" -> <<"recv", "StartTls", "recv">>
      [] OTHER -> << >>

\* what was done on the socket so far: recv, handshake, or the text sent
WireOps == [i \in 1..Len(wire) |-> IF wire[i].op = "send" THEN wire[i].text ELSE wire[i].op]

Plaintext == SelectSeq(WireOps, LAMBDA o : o # "handshake")

Handshaken == \E i \in 1..Len(wire) : wire[i].op = "handshake"

\* the reply the capability is looked for in came without it
CapabilityMissing ==
    \/ /\ LowerType(starttls) = "smtp"
       /\ Len(wire) >= 3
       /\ ~Contains(wire[3].data, <<"STARTTLS">>)
    \/ /\ LowerType(starttls) = "sieve"
       /\ Len(wire) >= 1
       /\ ~Contains(wire[1].data, <<"quote", "STARTTLS", "quote">>)

\* C22: the plaintext steps made are the first steps of the table's row of
\* the type, in its order, and the handshake is made only after the whole
\* row; the smtp starttls and the sieve StartTls commands are sent only
\* after a reply holding the capability; when the capability is missing or
\* the type has no row, no handshake is made and the upgrade ends with the
\* socket closed and the error of the unsupported upgrade raised.
C22_StartTlsProtocol ==
    starttls # "" =>
        LET ty == LowerType(starttls)
            row == UpgradeTable(ty)
        IN  /\ Len(Plaintext) <= Len(row)
            /\ Plaintext = SubSeq(row, 1, Len(Plaintext))
            /\ Handshaken =>
                  /\ Plaintext = row
                  /\ row # << >>
                  /\ WireOps = Append(row, "handshake")
            /\ CapabilityMissing =>
                  /\ "starttls" \notin Range(WireOps)
                  /\ "StartTls" \notin Range(WireOps)
            /\ (CapabilityMissing \/ ~Supported(ty)) =>
                  /\ ~Handshaken
                  /\ stpc \in {"connected", "upgrade", "raised"}
                  /\ stpc = "raised" =>
                        /\ sock = "closed"
                        /\ st_err \in {"notsupported", "unsupported"}

\* ---------------------------------------------------------------- C23
BeginsWithY(answer) == answer # << >> /\ answer[1] \in {"y", "Y"}

\* the parts of C23 that do not depend on the answer: a refusal leaves no
\* account and fails the registration, and without a TTY the terms are
\* accepted unasked
TosGateFrame ==
    /\ (prompt.asked /\ ~submitted.sent) =>
          /\ ccpc = "raised"
          /\ cc_err = "register"
          /\ registration = NoReg
          /\ fs = fs0
          /\ dirs = dirs0
    /\ (prompt.tos /\ ~prompt.tty) =>
          /\ submitted.sent
          /\ submitted.terms_of_service_agreed
    /\ submitted.sent => submitted.terms_of_service_agreed = prompt.tos

\* C23 as stated: with terms of service advertised and a TTY, the account is
\* submitted only if the answer begins with y or Y; any other answer fails
\* the registration with no account created; without a TTY the terms are
\* auto-accepted.
C23_SubmittedOnlyOnYes ==
    /\ prompt.asked => (submitted.sent <=> BeginsWithY(prompt.answer))
    /\ TosGateFrame

\* C23, amended: with terms of service advertised and a TTY, the account is
\* submitted if and only if the answer is empty or begins with y or Y; any
\* other answer fails the registration with no account created; without a
\* TTY the terms are auto-accepted.
C23_SubmittedOnYesOrEmpty ==
    /\ prompt.asked =>
          (submitted.sent <=> (prompt.answer = << >> \/ BeginsWithY(prompt.answer)))
    /\ TosGateFrame

\* the prompt was answered with the empty line and connect_client returned
\* with the account registered
C23_Witness ==
    /\ prompt.asked
    /\ prompt.answer = << >>
    /\ submitted.sent
    /\ submitted.terms_of_service_agreed
    /\ ccpc = "returned"

\* ---------------------------------------------------------------- C24
\* C24: whenever connect_client has returned, client.key exists, holds the
\* account key the returned client signs with, and is encrypted if and only
\* if a passphrase is configured.
C24_ClientKeyOnDisk ==
    ccpc = "returned" =>
        /\ Exists(fs, ClientKeyPath)
        /\ fs[ClientKeyPath].data = KeyFile(net_key, passphrase)

\* ---------------------------------------------------------------- C25
\* C25: the operations connect_client queued are committed in one
\* transaction, begun only once the directory was fetched and the account is
\* registered; when connecting or registering failed, no file and no
\* directory was created, moved or modified.
C25_NoWriteBeforeAcme ==
    /\ (ccpc = "raised" /\ cc_err \in {"connect", "register"}) =>
          /\ fs = fs0
          /\ dirs = dirs0
          /\ txpc = "idle"
          /\ applied = << >>
    /\ ccpc \in {"load", "connect", "register", "commit"} =>
          /\ fs = fs0
          /\ dirs = dirs0
          /\ txpc = "idle"
    /\ txpc # "idle" =>
          /\ net_key # 0
          /\ registration # NoReg
    /\ txpc \notin {"idle", "call"} =>
          /\ Len(ops0) = Len(ops)
          /\ \A i \in 1..Len(ops) : ops0[i].file_path = ops[i].file_path

\* the registration failed with the write of a fresh client.key queued
C25_Witness ==
    /\ ccpc = "raised"
    /\ cc_err = "register"
    /\ \E i \in 1..Len(ops) : ops[i].file_path = ClientKeyPath /\ ops[i].content.present

\* ---------------------------------------------------------------- C26
\* C26: whatever the server answers, handle_authorizations, and with it the
\* poll loop of _get_authorizations, eventually returns or raises.
C26_PollLoopTerminates == <>(hapc \in {"returned", "raised"})

\* ---------------------------------------------------------------- C27
\* C27: whenever handle_authorizations has returned or raised, the queue of
\* the Hooks object holds no invocation (every set_http_challenge and
\* clear_http_challenge invocation the call queued was executed and
\* cleared).
C27_NoStaleHooks == hapc \in {"returned", "raised"} => HooksCalls(hooks) = << >>

====
